---- MODULE Spec2Model ----
(***************************************************************************)
(* Dynamic context pruning: the range-resolution engine of                 *)
(* lib/tools/distill.ts (findStringInMessages and its helpers) and the     *)
(* Anthropic request-format descriptor with the detection chain of the     *)
(* fetch wrapper.                                                          *)
(*                                                                         *)
(* Strings are sequences of one-character strings, so that substring       *)
(* search, concatenation and JSON.stringify are computed, not assumed.     *)
(* JavaScript values whose type the code inspects are tagged records.      *)
(***************************************************************************)
EXTENDS Integers, Sequences, FiniteSets, TLC

VARIABLES
    \* ---- match engine (distill.ts) ----
    messages,           \* WithParts[]: the session's message list
    compressSummaries,  \* CompressSummary[]
    searchString,       \* argument of the last findStringInMessages call
    fuzzyConfig,        \* argument of the last findStringInMessages call
    ratio,              \* what partial_ratio answered, per text it was asked about
    result,             \* outcome of the call: a locator or the error thrown
    logInfo,            \* logger.info calls made by the call
    mpc,                \* "off" | "ready" | "done"
    \* ---- request bodies (fetch wrapper, Anthropic format descriptor) ----
    body,               \* the outbound request body, mutated in place
    prev,               \* the body as it was before the last call
    call,               \* the last call: operation, arguments, what it returned
    system0,            \* the system channel of the body as it was received
    injections,         \* the texts injected so far, in call order
    ncalls,             \* how many replaceToolOutput / applyPruning calls were made
    fpc,                \* "off" | "ready"
    \* ---- the distill tool (createDistillTool.execute) ----
    args,               \* the arguments of the tool call
    exec,               \* what execute did: the error thrown or the call it made
    \* ---- collectToolIdsInRange (distill.ts) ----
    range,              \* startIndex and endIndex of the call
    toolIds,            \* the array the call returned
    \* ---- model selection (selectModel) ----
    currentModel,       \* argument of selectModel: undefined or a ModelInfo
    authenticated,      \* what listProviders answered: an object keyed by provider
    attempts,           \* the getLanguageModel requests made so far, with their outcome
    selection,          \* what selectModel settled with: a result or a rejection
    providerIndex,      \* position of the step 3 loop in PROVIDER_PRIORITY
    spc                 \* "off" | "start" | "step1" | "step2" | "list" | "step3" | "done"

matchVars == <<messages, compressSummaries, searchString, fuzzyConfig, ratio,
               result, logInfo, mpc>>

formatVars == <<body, prev, call, system0, injections, ncalls, fpc>>

distillVars == <<args, exec>>

\* what the actions of one subsystem leave alone
collectVars == <<range, toolIds>>

selectVars == <<currentModel, authenticated, attempts, selection, providerIndex, spc>>

notMatchVars == <<formatVars, distillVars, collectVars, selectVars>>
notFormatVars == <<matchVars, distillVars, collectVars, selectVars>>
notDistillVars == <<matchVars, formatVars, collectVars, selectVars>>
notCollectVars == <<matchVars, formatVars, distillVars, selectVars>>
notSelectVars == <<matchVars, formatVars, distillVars, collectVars>>

vars == <<matchVars, formatVars, distillVars, collectVars, selectVars>>

(***************************************************************************)
(* Bounds of the model.                                                    *)
(***************************************************************************)
MaxMsgs == 2
MaxSummaries == 2
MaxInjections == 2
MaxReplaceCalls == 1
MaxApplyCalls == 1
MaxIds == 2
MaxSpanMsgs == 3

(***************************************************************************)
(* JavaScript values.                                                      *)
(***************************************************************************)
Undefined == [t |-> "undefined"]

\* the subsystems that a specification does not exercise stay switched off
NoCall == [op |-> "none"]
FormatOff ==
    /\ body = Undefined
    /\ prev = Undefined
    /\ call = NoCall
    /\ system0 = Undefined
    /\ injections = <<>>
    /\ ncalls = [replace |-> 0, apply |-> 0]
    /\ fpc = "off"
MatchOff ==
    /\ messages = <<>>
    /\ compressSummaries = <<>>
    /\ searchString = <<>>
    /\ fuzzyConfig = Undefined
    /\ ratio = <<>>
    /\ result = Undefined
    /\ logInfo = <<>>
    /\ mpc = "off"
DistillOff ==
    /\ args = Undefined
    /\ exec = Undefined
CollectOff ==
    /\ range = Undefined
    /\ toolIds = Undefined
SelectOff ==
    /\ currentModel = Undefined
    /\ authenticated = Undefined
    /\ attempts = <<>>
    /\ selection = Undefined
    /\ providerIndex = 0
    /\ spc = "off"
Str(s) == [t |-> "string", v |-> s]
Obj(k, v) == [t |-> "object", k |-> k, v |-> v]
Arr(items) == [t |-> "array", items |-> items]

IsString(x) == x.t = "string"
IsArray(x) == x.t = "array"
\* ToBoolean: undefined and "" are falsy, objects are truthy
Truthy(x) == CASE x.t = "undefined" -> FALSE
               [] x.t = "string" -> x.v # <<>>
               [] OTHER -> TRUE

\* JSON.stringify of an object with one string-valued key: {"k":"v"}
JSONStringify(x) ==
    <<"{", "\"">> \o x.k \o <<"\"", ":", "\"">> \o x.v \o <<"\"", "}">>

\* String.prototype.includes
Includes(hay, needle) ==
    \E i \in 0..(Len(hay) - Len(needle)) : SubSeq(hay, i + 1, i + Len(needle)) = needle

(***************************************************************************)
(* extractMessageContent                                                   *)
(***************************************************************************)
ToolPartContent(state) ==
    IF state.t = "undefined" THEN <<>>
    ELSE LET out == IF state.status = "completed" /\ IsString(state.output)
                        THEN <<" ">> \o state.output.v
                    ELSE IF state.status = "error" /\ IsString(state.error)
                        THEN <<" ">> \o state.error.v
                    ELSE <<>>
             inp == IF Truthy(state.input)
                        THEN <<" ">> \o (IF IsString(state.input) THEN state.input.v
                                         ELSE JSONStringify(state.input))
                    ELSE <<>>
         IN out \o inp

PartContent(part) ==
    CASE part.type \in {"text", "reasoning"} ->
            IF IsString(part.text) THEN <<" ">> \o part.text.v ELSE <<>>
      [] part.type = "tool" -> ToolPartContent(part.state)
      [] part.type = "compaction" ->
            IF IsString(part.summary) THEN <<" ">> \o part.summary.v ELSE <<>>
      [] part.type = "subtask" ->
            (IF IsString(part.summary) THEN <<" ">> \o part.summary.v ELSE <<>>)
            \o (IF IsString(part.result) THEN <<" ">> \o part.result.v ELSE <<>>)
      [] OTHER -> <<>>

RECURSIVE ConcatParts(_)
ConcatParts(parts) ==
    IF parts = <<>> THEN <<>>
    ELSE PartContent(Head(parts)) \o ConcatParts(Tail(parts))

extractMessageContent(msg) ==
    ConcatParts(IF IsArray(msg.parts) THEN msg.parts.items ELSE <<>>)

(***************************************************************************)
(* MatchResult lists: findExactMatches, findFuzzyMatches                   *)
(***************************************************************************)
\* messages.findIndex((m) => m.info.id === id), 0-based, -1 when absent
FindIndex(msgs, id) ==
    IF \E i \in 1..Len(msgs) : msgs[i].info.id = id
    THEN (CHOOSE i \in 1..Len(msgs) :
             /\ msgs[i].info.id = id
             /\ \A j \in 1..(i - 1) : msgs[j].info.id # id) - 1
    ELSE -1

MatchResult(id, index, score, matchType) ==
    [messageId |-> id, messageIndex |-> index, score |-> score, matchType |-> matchType]

\* matches = [], seenMessageIds = new Set()
EmptyAcc == [matches |-> <<>>, seen |-> {}]

\* mutant: a summary hit does not record its anchor in seenMessageIds
PushAnchorForgetsSeen(acc, summary, msgs, score, matchType) ==
    LET anchorIndex == FindIndex(msgs, summary.anchorMessageId)
    IN IF anchorIndex # -1 /\ summary.anchorMessageId \notin acc.seen
       THEN [seen |-> acc.seen,
             matches |-> Append(acc.matches,
                 MatchResult(summary.anchorMessageId, anchorIndex, score, matchType))]
       ELSE acc

\* mutant: a summary hit is pushed whether or not its anchor message is in the list
PushAnchorAbsentAnchor(acc, summary, msgs, score, matchType) ==
    LET anchorIndex == FindIndex(msgs, summary.anchorMessageId)
    IN IF summary.anchorMessageId \notin acc.seen
       THEN [seen |-> acc.seen \cup {summary.anchorMessageId},
             matches |-> Append(acc.matches,
                 MatchResult(summary.anchorMessageId, anchorIndex, score, matchType))]
       ELSE acc

\* the candidate a summary hit pushes, unless its anchor is absent or already seen
PushAnchor(acc, summary, msgs, score, matchType) ==
    LET anchorIndex == FindIndex(msgs, summary.anchorMessageId)
    IN IF anchorIndex # -1 /\ summary.anchorMessageId \notin acc.seen
       THEN [seen |-> acc.seen \cup {summary.anchorMessageId},
             matches |-> Append(acc.matches,
                 MatchResult(summary.anchorMessageId, anchorIndex, score, matchType))]
       ELSE acc

\* mutant: the raw-message candidate carries a 1-based index
PushMessageOneBased(acc, msgs, i, score, matchType) ==
    [seen |-> acc.seen \cup {msgs[i].info.id},
     matches |-> Append(acc.matches, MatchResult(msgs[i].info.id, i, score, matchType))]

\* the candidate a raw-message hit pushes (index i is 1-based here, 0-based in the result)
PushMessage(acc, msgs, i, score, matchType) ==
    [seen |-> acc.seen \cup {msgs[i].info.id},
     matches |-> Append(acc.matches, MatchResult(msgs[i].info.id, i - 1, score, matchType))]

\* mutant: the exact phase does not look at the compress summaries
ExactSummariesIgnored(sums, acc, msgs, s) == acc

RECURSIVE ExactSummaries(_, _, _, _)
ExactSummaries(sums, acc, msgs, s) ==
    IF sums = <<>> THEN acc
    ELSE ExactSummaries(Tail(sums),
                        IF Includes(Head(sums).summary, s)
                        THEN PushAnchor(acc, Head(sums), msgs, 100, "exact")
                        ELSE acc,
                        msgs, s)

RECURSIVE ExactMessages(_, _, _, _)
ExactMessages(i, acc, msgs, s) ==
    IF i > Len(msgs) THEN acc
    ELSE ExactMessages(i + 1,
                       IF msgs[i].info.id \in acc.seen THEN acc
                       ELSE IF Includes(extractMessageContent(msgs[i]), s)
                            THEN PushMessage(acc, msgs, i, 100, "exact")
                            ELSE acc,
                       msgs, s)

findExactMatches(msgs, s, sums) ==
    ExactMessages(1, ExactSummaries(sums, EmptyAcc, msgs, s), msgs, s).matches

\* partial_ratio(searchString, text) of the fuzzball package: an integer 0..100 that
\* depends on the two strings only.  pr is the package's answer per text for the
\* search string of the call.
partial_ratio(pr, text) == pr[text]

RECURSIVE FuzzySummaries(_, _, _, _, _)
FuzzySummaries(sums, acc, msgs, pr, minScore) ==
    IF sums = <<>> THEN acc
    ELSE LET score == partial_ratio(pr, Head(sums).summary)
         IN FuzzySummaries(Tail(sums),
                           IF score >= minScore
                           THEN PushAnchor(acc, Head(sums), msgs, score, "fuzzy")
                           ELSE acc,
                           msgs, pr, minScore)

RECURSIVE FuzzyMessages(_, _, _, _, _)
FuzzyMessages(i, acc, msgs, pr, minScore) ==
    IF i > Len(msgs) THEN acc
    ELSE FuzzyMessages(i + 1,
                       IF msgs[i].info.id \in acc.seen THEN acc
                       ELSE LET score == partial_ratio(pr, extractMessageContent(msgs[i]))
                            IN IF score >= minScore
                               THEN PushMessage(acc, msgs, i, score, "fuzzy")
                               ELSE acc,
                       msgs, pr, minScore)

\* mutant: the raw-message loop of the fuzzy phase forgets the score floor
findFuzzyMatchesNoFloor(msgs, pr, sums, minScore) ==
    FuzzyMessages(1, FuzzySummaries(sums, EmptyAcc, msgs, pr, minScore),
                  msgs, pr, 0).matches

findFuzzyMatches(msgs, pr, sums, minScore) ==
    FuzzyMessages(1, FuzzySummaries(sums, EmptyAcc, msgs, pr, minScore),
                  msgs, pr, minScore).matches

(***************************************************************************)
(* findStringInMessages                                                    *)
(***************************************************************************)
DefaultMinScore == 85
DefaultMinGap == 15
DEFAULT_FUZZY_CONFIG == [minScore |-> DefaultMinScore, minGap |-> DefaultMinGap]

\* Array.prototype.sort((a, b) => b.score - a.score): stable, descending by score
RECURSIVE InsertByScore(_, _)
InsertByScore(sorted, m) ==
    IF sorted = <<>> THEN <<m>>
    ELSE IF Head(sorted).score >= m.score
         THEN <<Head(sorted)>> \o InsertByScore(Tail(sorted), m)
         ELSE <<m>> \o sorted

RECURSIVE SortByScoreDesc(_)
SortByScoreDesc(ms) ==
    IF ms = <<>> THEN <<>>
    ELSE InsertByScore(SortByScoreDesc(SubSeq(ms, 1, Len(ms) - 1)), ms[Len(ms)])

Return(m) == [threw |-> FALSE, messageId |-> m.messageId, messageIndex |-> m.messageIndex]
Throw(e) == [threw |-> TRUE, error |-> e]

\* the three errors the function throws, by the head of their message
MultipleExact == "Found multiple exact matches"
NotFound == "not found in conversation (exact or fuzzy)"
AmbiguousFuzzy == "Ambiguous fuzzy match"

\* mutant: only an exact tie of the two best scores counts as ambiguous
FuzzyPhaseTiesOnly(msgs, sums, cfg, pr) ==
    LET fuzzyMatches == findFuzzyMatches(msgs, pr, sums, cfg.minScore)
        sorted == SortByScoreDesc(fuzzyMatches)
    IN IF Len(fuzzyMatches) = 0 THEN [out |-> Throw(NotFound), log |-> <<>>]
       ELSE IF Len(sorted) >= 2 /\ sorted[1].score - sorted[2].score <= 0
            THEN [out |-> Throw(AmbiguousFuzzy), log |-> <<>>]
            ELSE [out |-> Return(sorted[1]),
                  log |-> <<[score |-> sorted[1].score,
                             messageIndex |-> sorted[1].messageIndex]>>]

\* mutant: a gap of exactly minGap counts as ambiguous
FuzzyPhaseGapInclusive(msgs, sums, cfg, pr) ==
    LET fuzzyMatches == findFuzzyMatches(msgs, pr, sums, cfg.minScore)
        sorted == SortByScoreDesc(fuzzyMatches)
    IN IF Len(fuzzyMatches) = 0 THEN [out |-> Throw(NotFound), log |-> <<>>]
       ELSE IF Len(sorted) >= 2 /\ sorted[1].score - sorted[2].score <= cfg.minGap
            THEN [out |-> Throw(AmbiguousFuzzy), log |-> <<>>]
            ELSE [out |-> Return(sorted[1]),
                  log |-> <<[score |-> sorted[1].score,
                             messageIndex |-> sorted[1].messageIndex]>>]

\* PHASE 2 of findStringInMessages
FuzzyPhase(msgs, sums, cfg, pr) ==
    LET fuzzyMatches == findFuzzyMatches(msgs, pr, sums, cfg.minScore)
        sorted == SortByScoreDesc(fuzzyMatches)
    IN IF Len(fuzzyMatches) = 0 THEN [out |-> Throw(NotFound), log |-> <<>>]
       ELSE IF Len(sorted) >= 2 /\ sorted[1].score - sorted[2].score < cfg.minGap
            THEN [out |-> Throw(AmbiguousFuzzy), log |-> <<>>]
            ELSE [out |-> Return(sorted[1]),
                  log |-> <<[score |-> sorted[1].score,
                             messageIndex |-> sorted[1].messageIndex]>>]

\* mutant: the first exact candidate is returned however many there are
findStringInMessagesFirstExact(msgs, s, sums, cfg, pr) ==
    LET exactMatches == findExactMatches(msgs, s, sums)
    IN IF Len(exactMatches) >= 1 THEN [out |-> Return(exactMatches[1]), log |-> <<>>]
       ELSE FuzzyPhase(msgs, sums, cfg, pr)

\* PHASE 1, then PHASE 2 when there is no exact candidate
findStringInMessages(msgs, s, sums, cfg, pr) ==
    LET exactMatches == findExactMatches(msgs, s, sums)
    IN IF Len(exactMatches) = 1 THEN [out |-> Return(exactMatches[1]), log |-> <<>>]
       ELSE IF Len(exactMatches) > 1 THEN [out |-> Throw(MultipleExact), log |-> <<>>]
            ELSE FuzzyPhase(msgs, sums, cfg, pr)

(***************************************************************************)
(* Inputs of the match engine: conversations, summaries, search strings.   *)
(***************************************************************************)
TextPart(x) == [type |-> "text", text |-> x]
ReasoningPart(x) == [type |-> "reasoning", text |-> x]
ToolPart(callID, state) == [type |-> "tool", callID |-> callID, state |-> state]
ToolState(status, output, error, input) ==
    [t |-> "object", status |-> status, output |-> output, error |-> error, input |-> input]
CompactionPart(x) == [type |-> "compaction", summary |-> x]
SubtaskPart(x, y) == [type |-> "subtask", summary |-> x, result |-> y]

\* extracted content " a b": a text part, a text part without text, a reasoning part
\* and a tool part without state
PartsAB == Arr(<<TextPart(Str(<<"a">>)), TextPart(Undefined), ReasoningPart(Str(<<"b">>)),
                 ToolPart("call1", Undefined)>>)
\* extracted content " b a": a completed tool call (its error field is not read) and
\* a subtask part without strings
PartsBA == Arr(<<ToolPart("call1",
                     ToolState("completed", Str(<<"b">>), Str(<<"a", " ", "b">>), Str(<<"a">>))),
                 SubtaskPart(Undefined, Undefined)>>)
\* no "a" in the extracted content: a pending call (output not read), a failed call
\* (output not read, object input stringified), a compaction part and a subtask part
PartsB == Arr(<<ToolPart("call2", ToolState("pending", Str(<<"a">>), Undefined, Undefined)),
                ToolPart("call3",
                    ToolState("error", Str(<<"a">>), Str(<<"b">>), Obj(<<"k">>, <<"b">>))),
                CompactionPart(Str(<<"b">>)),
                SubtaskPart(Str(<<"b">>), Str(<<"b">>))>>)

MsgParts == {PartsAB, PartsBA, PartsB}

\* info.id of the message at each position: identifiers are unique in a session
MsgIds == <<"m1", "m2", "m3", "m4">>

Conversations ==
    UNION { { [i \in 1..n |-> [info |-> [id |-> MsgIds[i]], parts |-> ps[i]]] :
                ps \in [1..n -> MsgParts] } : n \in 0..MaxMsgs }

\* a summary is anchored at the first or the second message of the session; in a
\* shorter conversation that message is not in the list
SummaryTexts == {<<"a", " ", "b">>, <<"b">>}
AnchorIds == {"m1", "m2"}
Summaries == [summary : SummaryTexts, anchorMessageId : AnchorIds]
SummaryLists == UNION { [1..n -> Summaries] : n \in 0..MaxSummaries }

SearchStrings == {<<"a">>, <<"a", " ", "b">>}

FuzzyConfigs == {DEFAULT_FUZZY_CONFIG, [minScore |-> 90, minGap |-> 10]}

\* scores partial_ratio may answer: below both floors, on the default floor, on the
\* second floor, the maximum
Scores == {80, 85, 90, 100}

\* the texts a call hands to partial_ratio
ScoredTexts(msgs, sums) ==
    {sums[i].summary : i \in 1..Len(sums)}
        \cup {extractMessageContent(msgs[i]) : i \in 1..Len(msgs)}

\* partial_ratio is only called when PHASE 1 found nothing
Answers(msgs, s, sums) ==
    IF Len(findExactMatches(msgs, s, sums)) = 0
    THEN [ScoredTexts(msgs, sums) -> Scores]
    ELSE {<<>>}

(***************************************************************************)
(* The match engine as a state machine: a session holds a conversation,    *)
(* then findStringInMessages is called on it once.                         *)
(***************************************************************************)
InitMatch ==
    /\ messages \in Conversations
    /\ compressSummaries \in SummaryLists
    /\ searchString = <<>>
    /\ fuzzyConfig = DEFAULT_FUZZY_CONFIG
    /\ ratio = <<>>
    /\ result = Undefined
    /\ logInfo = <<>>
    /\ mpc = "ready"
    /\ FormatOff
    /\ DistillOff
    /\ CollectOff
    /\ SelectOff

FindStringInMessages(s, cfg, pr) ==
    /\ mpc = "ready"
    /\ LET r == findStringInMessages(messages, s, compressSummaries, cfg, pr)
       IN /\ result' = r.out
          /\ logInfo' = r.log
    /\ searchString' = s
    /\ fuzzyConfig' = cfg
    /\ ratio' = pr
    /\ mpc' = "done"
    /\ UNCHANGED <<messages, compressSummaries>>
    /\ UNCHANGED notMatchVars

NextMatch ==
    \E s \in SearchStrings, cfg \in FuzzyConfigs :
        \E pr \in Answers(messages, s, compressSummaries) :
            FindStringInMessages(s, cfg, pr)

SpecMatch == InitMatch /\ [][NextMatch]_vars

(***************************************************************************)
(* Properties of the match engine.                                         *)
(***************************************************************************)
MessageIdSet == {messages[i].info.id : i \in 1..Len(messages)}

\* the locator of the message at (1-based) position i
Locator(i) == [threw |-> FALSE, messageId |-> messages[i].info.id, messageIndex |-> i - 1]

\* positions of the messages whose extracted content literally contains the search string
ContainingMsgs ==
    {i \in 1..Len(messages) : Includes(extractMessageContent(messages[i]), searchString)}

\* positions of the summaries whose text literally contains the search string
ContainingSummaries ==
    {k \in 1..Len(compressSummaries) : Includes(compressSummaries[k].summary, searchString)}

\* C1 as stated: a search string that is a literal substring of exactly one message's
\* content resolves to that message, for every summary list.
C1_AsStated ==
    mpc = "done" =>
        \A i \in 1..Len(messages) : ContainingMsgs = {i} => result = Locator(i)

\* C1 (amended): a search string that is a literal substring of exactly one message's
\* content resolves to that message's identifier and index, provided no summary that
\* contains it is anchored at another message of the list.
C1_UniqueExactResolves ==
    mpc = "done" =>
        \A i \in 1..Len(messages) :
            ( /\ ContainingMsgs = {i}
              /\ \A k \in ContainingSummaries :
                    compressSummaries[k].anchorMessageId
                        \notin (MessageIdSet \ {messages[i].info.id}) )
            => result = Locator(i)

\* the second of two messages alone contains the search string, a summary containing
\* it is anchored at that same message, and the call has returned
C1_Witness ==
    /\ mpc = "done"
    /\ Len(messages) = 2
    /\ ContainingMsgs = {2}
    /\ \E k \in ContainingSummaries :
          compressSummaries[k].anchorMessageId = messages[2].info.id
    /\ result = Locator(2)

\* C2: a search string that is a literal substring of two or more messages with
\* distinct identifiers makes the call throw the multiple-exact-matches error; no
\* locator is returned.
C2_ExactAmbiguityThrows ==
    mpc = "done" =>
        ( (\E i, j \in ContainingMsgs : messages[i].info.id # messages[j].info.id)
          => result = Throw(MultipleExact) )

\* two messages contain the search string and the call has thrown
C2_Witness ==
    /\ mpc = "done"
    /\ Cardinality(ContainingMsgs) >= 2
    /\ result = Throw(MultipleExact)

\* the accepted fuzzy candidates of the call that was made
FuzzyCandidates ==
    findFuzzyMatches(messages, ratio, compressSummaries, fuzzyConfig.minScore)

NoExactCandidate == Len(findExactMatches(messages, searchString, compressSummaries)) = 0

\* C3: without an exact candidate, when some accepted fuzzy candidate other than the
\* best one scores less than minGap below the best score, the call throws the
\* ambiguous-fuzzy-match error, also when the best score is strictly the highest.
C3_CloseFuzzyScoresThrow ==
    (mpc = "done" /\ NoExactCandidate) =>
        LET c == FuzzyCandidates
        IN ( \E i, j \in 1..Len(c) :
                /\ i # j
                /\ \A k \in 1..Len(c) : c[i].score >= c[k].score
                /\ c[i].score - c[j].score < fuzzyConfig.minGap )
           => result = Throw(AmbiguousFuzzy)

\* two accepted candidates, the best score strictly the highest, the gap below minGap
C3_Witness ==
    /\ mpc = "done"
    /\ NoExactCandidate
    /\ LET c == FuzzyCandidates
       IN /\ Len(c) = 2
          /\ c[1].score # c[2].score
    /\ result = Throw(AmbiguousFuzzy)

\* C4 as stated: a search string that scores below minScore against every message
\* makes the call throw the not-found error.
C4_AsStated ==
    (mpc = "done" /\ NoExactCandidate) =>
        ( (\A i \in 1..Len(messages) :
               partial_ratio(ratio, extractMessageContent(messages[i])) < fuzzyConfig.minScore)
          => result = Throw(NotFound) )

\* C4 (amended): when there is no exact candidate and the search string scores below
\* minScore against every message and against every compress summary, the call throws
\* the not-found error.
C4_BelowFloorNotFound ==
    (mpc = "done" /\ NoExactCandidate) =>
        ( ( /\ \A i \in 1..Len(messages) :
                 partial_ratio(ratio, extractMessageContent(messages[i]))
                     < fuzzyConfig.minScore
            /\ \A k \in 1..Len(compressSummaries) :
                 partial_ratio(ratio, compressSummaries[k].summary) < fuzzyConfig.minScore )
          => result = Throw(NotFound) )

\* a message and a summary anchored in the list were scored, everything scored below
\* the floor, and the call has thrown not-found
C4_Witness ==
    /\ mpc = "done"
    /\ NoExactCandidate
    /\ Len(messages) >= 1 /\ Len(compressSummaries) >= 1
    /\ compressSummaries[1].anchorMessageId \in MessageIdSet
    /\ \A i \in 1..Len(messages) :
          partial_ratio(ratio, extractMessageContent(messages[i])) < fuzzyConfig.minScore
    /\ \A k \in 1..Len(compressSummaries) :
          partial_ratio(ratio, compressSummaries[k].summary) < fuzzyConfig.minScore
    /\ result = Throw(NotFound)

\* summary k is the only unit that literally contains the search string
OnlyExactHit(k) ==
    /\ ContainingSummaries = {k}
    /\ ContainingMsgs = {}

\* C5 as stated: for every summary of the list, when it is the only unit containing
\* the search string the call returns its anchor message identifier.
C5_AsStated ==
    mpc = "done" =>
        \A k \in 1..Len(compressSummaries) :
            OnlyExactHit(k) =>
                /\ result.threw = FALSE
                /\ result.messageId = compressSummaries[k].anchorMessageId

\* C5 (amended): for every summary of the list whose anchor message is in the message
\* list, when it is the only unit containing the search string the call returns the
\* anchor message's identifier and index.
C5_SummaryHitResolvesToAnchor ==
    mpc = "done" =>
        \A k \in 1..Len(compressSummaries) :
            (OnlyExactHit(k) /\ compressSummaries[k].anchorMessageId \in MessageIdSet)
            => \E i \in 1..Len(messages) :
                  /\ messages[i].info.id = compressSummaries[k].anchorMessageId
                  /\ result = Locator(i)

\* the second summary alone contains the search string, is anchored at the second
\* message, and the call returned that message
C5_Witness ==
    /\ mpc = "done"
    /\ Len(compressSummaries) = 2
    /\ OnlyExactHit(2)
    /\ Len(messages) = 2
    /\ compressSummaries[2].anchorMessageId = messages[2].info.id
    /\ result = Locator(2)

(***************************************************************************)
(* Format descriptors and the detection chain of the fetch wrapper.        *)
(* A body is a record of its top-level fields; an absent field is          *)
(* Undefined.  Texts of the wire format are plain strings.                 *)
(***************************************************************************)
\* body.input
openaiResponsesDetect(b) == b.input # Undefined
\* body.system + body.inferenceConfig + body.messages
bedrockDetect(b) ==
    b.system # Undefined /\ b.inferenceConfig # Undefined /\ IsArray(b.messages)
\* body.system !== undefined && Array.isArray(body.messages)
anthropicDetect(b) == b.system # Undefined /\ IsArray(b.messages)
\* body.messages; a top-level system field is not looked at
openaiChatDetect(b) == IsArray(b.messages)
\* body.contents
geminiDetect(b) == b.contents # Undefined

NoDescriptor == "none"

\* mutant: the plain-messages descriptor is tried before the Anthropic one
DetectionChainChatFirst(b) ==
    IF openaiResponsesDetect(b) THEN "openai-responses"
    ELSE IF bedrockDetect(b) THEN "bedrock"
    ELSE IF openaiChatDetect(b) THEN "openai-chat"
    ELSE IF anthropicDetect(b) THEN "anthropic"
    ELSE IF geminiDetect(b) THEN "gemini"
    ELSE NoDescriptor

\* mutant: the Anthropic descriptor is tried before the Bedrock one
DetectionChainAnthropicFirst(b) ==
    IF openaiResponsesDetect(b) THEN "openai-responses"
    ELSE IF anthropicDetect(b) THEN "anthropic"
    ELSE IF bedrockDetect(b) THEN "bedrock"
    ELSE IF openaiChatDetect(b) THEN "openai-chat"
    ELSE IF geminiDetect(b) THEN "gemini"
    ELSE NoDescriptor

\* mutant: a body that no descriptor detects is handled by the Anthropic descriptor
DetectionChainDefaultAnthropic(b) ==
    IF openaiResponsesDetect(b) THEN "openai-responses"
    ELSE IF bedrockDetect(b) THEN "bedrock"
    ELSE IF anthropicDetect(b) THEN "anthropic"
    ELSE IF openaiChatDetect(b) THEN "openai-chat"
    ELSE IF geminiDetect(b) THEN "gemini"
    ELSE "anthropic"

\* the if / else-if chain: the first descriptor whose detect holds handles the body
DetectionChain(b) ==
    IF openaiResponsesDetect(b) THEN "openai-responses"
    ELSE IF bedrockDetect(b) THEN "bedrock"
    ELSE IF anthropicDetect(b) THEN "anthropic"
    ELSE IF openaiChatDetect(b) THEN "openai-chat"
    ELSE IF geminiDetect(b) THEN "gemini"
    ELSE NoDescriptor

UnknownFormat == "UnknownFormat"

\* the registry's dispatch: the chain's descriptor, or the UnknownFormat failure
dispatch(b) ==
    LET d == DetectionChain(b)
    IN IF d = NoDescriptor THEN [failed |-> TRUE, error |-> UnknownFormat]
       ELSE [failed |-> FALSE, descriptor |-> d]

(***************************************************************************)
(* anthropicFormat.injectSystemMessage                                     *)
(***************************************************************************)
TextBlock(text) == [type |-> "text", text |-> text]

\* mutant: a string system channel is reset to an empty list
injectSystemMessageDropsString(b, injection) ==
    LET sys == IF IsArray(b.system) THEN b.system ELSE Arr(<<>>)
    IN [body |-> [b EXCEPT !.system = Arr(Append(sys.items, TextBlock(injection)))],
        ret |-> TRUE]

injectSystemMessage(b, injection) ==
    LET sys == IF IsString(b.system) THEN Arr(<<TextBlock(b.system.v)>>)
               ELSE IF ~IsArray(b.system) THEN Arr(<<>>)
               ELSE b.system
    IN [body |-> [b EXCEPT !.system = Arr(Append(sys.items, TextBlock(injection)))],
        ret |-> TRUE]

(***************************************************************************)
(* anthropicFormat.replaceToolOutput                                       *)
(***************************************************************************)
\* String.prototype.toLowerCase on the identifiers of the model
ToLowerCase(id) == CASE id = "TOOLU_2" -> "toolu_2"
                     [] id = "OpenAI" -> "openai"
                     [] OTHER -> id

\* mutant: the replaced block is rebuilt from its type, identifier and new content
ReplaceBlockRebuilt(block, prunedMessage) ==
    [type |-> block.type, tool_use_id |-> block.tool_use_id, content |-> prunedMessage]

\* { ...block, content: prunedMessage }
ReplaceBlock(block, prunedMessage) ==
    [f \in DOMAIN block \cup {"content"} |->
        IF f = "content" THEN prunedMessage ELSE block[f]]

\* the tool_result blocks of user messages carry the tool outputs
IsToolResultOf(block, toolId) ==
    /\ block.type = "tool_result"
    /\ ToLowerCase(block.tool_use_id) = ToLowerCase(toolId)

\* mutant: blocks of messages of any role are taken for tool outputs
MessageHasToolResultAnyRole(m, toolId) ==
    /\ IsArray(m.content)
    /\ \E j \in 1..Len(m.content.items) : IsToolResultOf(m.content.items[j], toolId)

MessageHasToolResult(m, toolId) ==
    /\ m.role = "user"
    /\ IsArray(m.content)
    /\ \E j \in 1..Len(m.content.items) : IsToolResultOf(m.content.items[j], toolId)

ReplaceInMessage(m, toolId, prunedMessage) ==
    IF MessageHasToolResult(m, toolId)
    THEN [m EXCEPT !.content = Arr([j \in 1..Len(m.content.items) |->
              IF IsToolResultOf(m.content.items[j], toolId)
              THEN ReplaceBlock(m.content.items[j], prunedMessage)
              ELSE m.content.items[j]])]
    ELSE m

\* data is body.messages; returns the array as mutated and the boolean returned
replaceToolOutput(data, toolId, prunedMessage) ==
    [data |-> [i \in 1..Len(data) |-> ReplaceInMessage(data[i], toolId, prunedMessage)],
     ret |-> \E i \in 1..Len(data) : MessageHasToolResult(data[i], toolId)]

(***************************************************************************)
(* Request mutator: applyPruning(body, injectionText, replacements).       *)
(* order lists the identifiers of the replacements map in the order they   *)
(* are processed.                                                          *)
(***************************************************************************)
\* mutant: the first identifier without a tool result ends the batch
RECURSIVE ReplaceAllStopsAtMiss(_, _, _, _)
ReplaceAllStopsAtMiss(data, order, replacements, results) ==
    IF order = <<>> THEN [data |-> data, results |-> results]
    ELSE LET r == replaceToolOutput(data, Head(order), replacements[Head(order)])
         IN IF ~r.ret THEN [data |-> data, results |-> results]
            ELSE ReplaceAllStopsAtMiss(r.data, Tail(order), replacements,
                                       [results EXCEPT ![Head(order)] = r.ret])

RECURSIVE ReplaceAll(_, _, _, _)
ReplaceAll(data, order, replacements, results) ==
    IF order = <<>> THEN [data |-> data, results |-> results]
    ELSE LET r == replaceToolOutput(data, Head(order), replacements[Head(order)])
         IN ReplaceAll(r.data, Tail(order), replacements,
                       [results EXCEPT ![Head(order)] = r.ret])

\* a body without a messages array holds no tool output to replace
applyPruning(b, injectionText, replacements, order) ==
    LET d == dispatch(b)
    IN IF d.failed THEN [body |-> b, outcome |-> d]
       ELSE LET inj == injectSystemMessage(b, injectionText)
                data == IF IsArray(b.messages) THEN b.messages.items ELSE <<>>
                rep == ReplaceAll(data, order, replacements,
                                  [id \in DOMAIN replacements |-> FALSE])
            IN [body |-> IF IsArray(b.messages)
                         THEN [inj.body EXCEPT !.messages = Arr(rep.data)]
                         ELSE inj.body,
                outcome |-> [failed |-> FALSE, injected |-> inj.ret,
                             results |-> rep.results]]

(***************************************************************************)
(* Request bodies.                                                         *)
(***************************************************************************)
Body(input, system, inferenceConfig, msgs, contents) ==
    [input |-> input, system |-> system, inferenceConfig |-> inferenceConfig,
     messages |-> msgs, contents |-> contents]

\* system: absent, a string, or a list of text blocks (here one, with a cache hint)
SystemString == Str("Original system")
SystemList == Arr(<<[type |-> "text", text |-> "Original", cache_control |-> "ephemeral"]>>)
SystemChannels == {Undefined, SystemString, SystemList}

ToolResult1 ==
    [type |-> "tool_result", tool_use_id |-> "toolu_1", content |-> "Original content",
     is_error |-> TRUE, cache_control |-> "ephemeral"]
ToolResult2 == [type |-> "tool_result", tool_use_id |-> "TOOLU_2", content |-> "Result data"]
\* a block of the same form in an assistant message is not a tool output
AssistantBlock3 == [type |-> "tool_result", tool_use_id |-> "toolu_3", content |-> "Echo"]

UserMessage(content) == [role |-> "user", content |-> content]
AssistantMessage(content) == [role |-> "assistant", content |-> content]

\* one user message: a tool result with flags, then a text block
MessagesOneResult ==
    Arr(<<UserMessage(Arr(<<ToolResult1, TextBlock("Hello")>>))>>)
\* a user message with string content, an assistant message, and a user message with
\* two tool results, the first under an upper-case identifier
MessagesTwoResults ==
    Arr(<<UserMessage(Str("Hello")),
          AssistantMessage(Arr(<<AssistantBlock3>>)),
          UserMessage(Arr(<<ToolResult2, ToolResult1>>))>>)

\* bodies for the detection chain: every combination of the top-level fields the
\* descriptors look at; a body carries input or a messages array, not both
ShapeBodies ==
    { b \in [input : {Undefined, Arr(<<>>)},
             system : SystemChannels,
             inferenceConfig : {Undefined, [t |-> "object"]},
             messages : {Undefined, Str("Hello"), Arr(<<>>), MessagesOneResult},
             contents : {Undefined, Arr(<<>>)}] :
        b.input # Undefined => ~IsArray(b.messages) }

\* bodies for the Anthropic descriptor's operations: a system channel and messages
MutatedBodies ==
    { Body(Undefined, sys, Undefined, msgs, Undefined) :
        sys \in SystemChannels,
        msgs \in {Undefined, MessagesOneResult, MessagesTwoResults} }

InjectionTexts == {"Injected message", "Injected"}
\* the context text the request mutator injects
PruningContexts == {"Prunable tools"}
PrunedMessages == {"[PRUNED]"}
\* identifiers asked for: two with a tool result in some body, and one that only an
\* assistant block carries
ToolIds == {"toolu_1", "toolu_2", "toolu_3"}

\* the orders in which the entries of a replacements map can be processed
Orders(ids) ==
    { o \in [1..Cardinality(ids) -> ids] :
        \A i, j \in 1..Cardinality(ids) : i # j => o[i] # o[j] }

(***************************************************************************)
(* The detection chain as a state machine: a body arrives, the wrapper     *)
(* dispatches it.                                                          *)
(***************************************************************************)
FormatReady(bodies) ==
    /\ body \in bodies
    /\ prev = Undefined
    /\ call = NoCall
    /\ system0 = body.system
    /\ injections = <<>>
    /\ ncalls = [replace |-> 0, apply |-> 0]
    /\ fpc = "ready"

InitDispatch == MatchOff /\ DistillOff /\ CollectOff /\ SelectOff /\ FormatReady(ShapeBodies)

Dispatch ==
    /\ fpc = "ready"
    /\ call = NoCall
    /\ call' = [op |-> "dispatch", ret |-> dispatch(body)]
    /\ prev' = body
    /\ UNCHANGED <<body, system0, injections, ncalls, fpc>>
    /\ UNCHANGED notFormatVars

NextDispatch == Dispatch

SpecDispatch == InitDispatch /\ [][NextDispatch]_vars

(***************************************************************************)
(* The Anthropic descriptor and the request mutator as a state machine:    *)
(* calls are made on one body, which they mutate in place.                 *)
(***************************************************************************)
InitFormat == MatchOff /\ DistillOff /\ CollectOff /\ SelectOff /\ FormatReady(MutatedBodies)

InjectSystemMessage(injection) ==
    /\ fpc = "ready"
    /\ Len(injections) < MaxInjections
    /\ LET r == injectSystemMessage(body, injection)
       IN /\ body' = r.body
          /\ call' = [op |-> "injectSystemMessage", injection |-> injection, ret |-> r.ret]
    /\ prev' = body
    /\ injections' = Append(injections, injection)
    /\ UNCHANGED <<system0, ncalls, fpc>>
    /\ UNCHANGED notFormatVars

ReplaceToolOutput(toolId, prunedMessage) ==
    /\ fpc = "ready"
    /\ ncalls.replace < MaxReplaceCalls
    /\ IsArray(body.messages)
    /\ LET r == replaceToolOutput(body.messages.items, toolId, prunedMessage)
       IN /\ body' = [body EXCEPT !.messages = Arr(r.data)]
          /\ call' = [op |-> "replaceToolOutput", toolId |-> toolId,
                      prunedMessage |-> prunedMessage, ret |-> r.ret]
    /\ prev' = body
    /\ ncalls' = [ncalls EXCEPT !.replace = @ + 1]
    /\ UNCHANGED <<system0, injections, fpc>>
    /\ UNCHANGED notFormatVars

\* the adapters of the other formats are not part of the model: applyPruning is
\* called on bodies that dispatch to the Anthropic descriptor or to no descriptor
ApplyPruning(injectionText, replacements, order) ==
    /\ fpc = "ready"
    /\ ncalls.apply < MaxApplyCalls
    /\ DetectionChain(body) \in {"anthropic", NoDescriptor}
    /\ LET r == applyPruning(body, injectionText, replacements, order)
       IN /\ body' = r.body
          /\ call' = [op |-> "applyPruning", injectionText |-> injectionText,
                      replacements |-> replacements, order |-> order,
                      outcome |-> r.outcome]
          /\ injections' = IF r.outcome.failed THEN injections
                           ELSE Append(injections, injectionText)
    /\ prev' = body
    /\ ncalls' = [ncalls EXCEPT !.apply = @ + 1]
    /\ UNCHANGED <<system0, fpc>>
    /\ UNCHANGED notFormatVars

NextFormat ==
    \/ \E injection \in InjectionTexts : InjectSystemMessage(injection)
    \/ \E toolId \in ToolIds, prunedMessage \in PrunedMessages :
          ReplaceToolOutput(toolId, prunedMessage)
    \/ \E injectionText \in PruningContexts, ids \in SUBSET ToolIds :
          \E replacements \in [ids -> PrunedMessages], order \in Orders(ids) :
              ApplyPruning(injectionText, replacements, order)

SpecFormat == InitFormat /\ [][NextFormat]_vars

(***************************************************************************)
(* Properties of the detection chain.                                      *)
(***************************************************************************)
Dispatched == call.op = "dispatch"
Selected(d) == call.ret = [failed |-> FALSE, descriptor |-> d]

\* the descriptors in priority order, and the detect predicate of each
Priority == <<"openai-responses", "bedrock", "anthropic", "openai-chat", "gemini">>
Detects(d, b) ==
    CASE d = "openai-responses" -> openaiResponsesDetect(b)
      [] d = "bedrock" -> bedrockDetect(b)
      [] d = "anthropic" -> anthropicDetect(b)
      [] d = "openai-chat" -> openaiChatDetect(b)
      [] d = "gemini" -> geminiDetect(b)
SomeDetects(b) == \E i \in 1..Len(Priority) : Detects(Priority[i], b)
IsFirstDetecting(i, b) ==
    /\ Detects(Priority[i], b)
    /\ \A j \in 1..(i - 1) : ~Detects(Priority[j], b)

\* has a top-level system field (a string or a list), a messages array, no inferenceConfig
AnthropicShape(b) ==
    /\ IsString(b.system) \/ IsArray(b.system)
    /\ IsArray(b.messages)
    /\ b.inferenceConfig = Undefined
\* has system, inferenceConfig and a messages array
BedrockShape(b) ==
    /\ b.system # Undefined
    /\ b.inferenceConfig # Undefined
    /\ IsArray(b.messages)

Fragments(sys) ==
    IF IsString(sys) THEN <<TextBlock(sys.v)>>
    ELSE IF IsArray(sys) THEN sys.items
    ELSE <<>>
InjectedFragments == [i \in 1..Len(injections) |-> TextBlock(injections[i])]

\* C9: after injectSystemMessage the system channel is a list whose last element is
\* the text fragment of the injection and whose preceding elements are the prior
\* content of the channel (a string is the single first fragment, a list keeps its
\* fragments in order, an absent channel contributes none); after n injections the
\* list is the original fragments followed by the n injected fragments in call order.
C9_InjectionAppends ==
    /\ call.op = "injectSystemMessage" =>
          /\ call.ret = TRUE
          /\ IsArray(body.system)
          /\ Len(body.system.items) = Len(Fragments(prev.system)) + 1
          /\ body.system.items[Len(body.system.items)] = TextBlock(call.injection)
          /\ SubSeq(body.system.items, 1, Len(body.system.items) - 1)
                = Fragments(prev.system)
    /\ injections = <<>> => body.system = system0
    /\ injections # <<>> =>
          /\ IsArray(body.system)
          /\ body.system.items = Fragments(system0) \o InjectedFragments

\* two injections into a channel that was a string: three fragments, the original
\* text first
C9_Witness ==
    /\ call.op = "injectSystemMessage"
    /\ system0 = SystemString
    /\ Len(injections) = 2
    /\ injections[1] # injections[2]
    /\ prev.system = Arr(<<TextBlock(system0.v), TextBlock(injections[1])>>)
    /\ body.system.items[1] = TextBlock("Original system")
    /\ Len(body.system.items) = 3

\* the tool results of a body: content block j of message i is a tool_result block
\* of a user-role message
IsToolResultEntry(b, i, j) ==
    /\ i \in 1..Len(b.messages.items)
    /\ b.messages.items[i].role = "user"
    /\ IsArray(b.messages.items[i].content)
    /\ j \in 1..Len(b.messages.items[i].content.items)
    /\ b.messages.items[i].content.items[j].type = "tool_result"
IsEntryWithId(b, i, j, toolId) ==
    /\ IsToolResultEntry(b, i, j)
    /\ ToLowerCase(b.messages.items[i].content.items[j].tool_use_id) = ToLowerCase(toolId)
Entry(b, i, j) == b.messages.items[i].content.items[j]
EntryPositions(b) ==
    UNION { { <<i, j>> : j \in { k \in 1..Len(Fragments(b.messages.items[i].content)) :
                                    IsToolResultEntry(b, i, k) } } :
            i \in 1..Len(b.messages.items) }

\* C10: replaceToolOutput on a body holding a tool result with the given identifier
\* returns true and changes only the content field of that entry, to the new content:
\* the entry keeps its fields, and each field other than content (is_error,
\* cache_control, tool_use_id, type) has the value it had before the call.
C10_OnlyContentReplaced ==
    call.op = "replaceToolOutput" =>
        \A p \in EntryPositions(prev) :
            IsEntryWithId(prev, p[1], p[2], call.toolId) =>
                /\ call.ret = TRUE
                /\ IsToolResultEntry(body, p[1], p[2])
                /\ DOMAIN Entry(body, p[1], p[2]) = DOMAIN Entry(prev, p[1], p[2])
                /\ Entry(body, p[1], p[2]).content = call.prunedMessage
                /\ \A f \in DOMAIN Entry(prev, p[1], p[2]) \ {"content"} :
                      Entry(body, p[1], p[2])[f] = Entry(prev, p[1], p[2])[f]

\* the output of toolu_1, which carries an error flag and a cache hint, was replaced
\* in the third message of a body
C10_Witness ==
    /\ call.op = "replaceToolOutput"
    /\ call.toolId = "toolu_1"
    /\ call.ret = TRUE
    /\ prev.messages = MessagesTwoResults
    /\ Entry(prev, 3, 2) = ToolResult1
    /\ Entry(body, 3, 2) = [ToolResult1 EXCEPT !.content = call.prunedMessage]
    /\ Entry(body, 3, 2).content # Entry(prev, 3, 2).content

\* C11: replaceToolOutput with an identifier that matches no tool result of the body
\* returns false (a returned value, not a failure) and leaves the whole body unchanged.
C11_MissReturnsFalse ==
    (/\ call.op = "replaceToolOutput"
     /\ \A p \in EntryPositions(prev) : ~IsEntryWithId(prev, p[1], p[2], call.toolId)) =>
        /\ call.ret = FALSE
        /\ body = prev

\* toolu_2 was asked for in a body whose only tool result is that of toolu_1
C11_Witness ==
    /\ call.op = "replaceToolOutput"
    /\ call.toolId = "toolu_2"
    /\ prev.messages = MessagesOneResult
    /\ EntryPositions(prev) # {}
    /\ call.ret = FALSE
    /\ body = prev

HasEntry(b, toolId) ==
    /\ IsArray(b.messages)
    /\ \E p \in EntryPositions(b) : IsEntryWithId(b, p[1], p[2], toolId)

\* C12: applyPruning on a body with a descriptor, for every replacements map and every
\* processing order: each identifier with a tool result in the body is reported as
\* success and its tool results carry the new content afterwards, each identifier
\* without one is reported as failure, whatever comes before it in the order.
C12_PartialSuccess ==
    (call.op = "applyPruning" /\ ~call.outcome.failed) =>
        /\ DOMAIN call.outcome.results = DOMAIN call.replacements
        /\ \A id \in DOMAIN call.replacements :
              /\ call.outcome.results[id] = HasEntry(prev, id)
              /\ HasEntry(prev, id) =>
                    \A p \in EntryPositions(prev) :
                        IsEntryWithId(prev, p[1], p[2], id) =>
                            /\ IsEntryWithId(body, p[1], p[2], id)
                            /\ Entry(body, p[1], p[2]).content = call.replacements[id]

\* a batch of three: the identifier processed first has no tool result, the two
\* processed after it have one each and were replaced
C12_Witness ==
    /\ call.op = "applyPruning"
    /\ ~call.outcome.failed
    /\ prev.messages = MessagesTwoResults
    /\ call.order = <<"toolu_3", "toolu_2", "toolu_1">>
    /\ call.outcome.results = [id \in ToolIds |-> id # "toolu_3"]
    /\ Entry(body, 3, 1).content = call.replacements["toolu_2"]
    /\ Entry(body, 3, 2).content = call.replacements["toolu_1"]
    /\ Entry(prev, 3, 1).content # Entry(body, 3, 1).content

(***************************************************************************)
(* The distill tool: createDistillTool(ctx).execute(args, toolCtx).        *)
(***************************************************************************)
Number(n) == [t |-> "number", v |-> n]

Whitespace == {" ", "\t", "\n"}
RECURSIVE TrimStart(_)
TrimStart(s) == IF s # <<>> /\ Head(s) \in Whitespace THEN TrimStart(Tail(s)) ELSE s
RECURSIVE TrimEnd(_)
TrimEnd(s) ==
    IF s # <<>> /\ s[Len(s)] \in Whitespace THEN TrimEnd(SubSeq(s, 1, Len(s) - 1)) ELSE s
\* String.prototype.trim
Trim(s) == TrimEnd(TrimStart(s))

IsValidId(id) == IsString(id) /\ Trim(id.v) # <<>>

\* Array.prototype.every over the ids and over the distillation
EveryValidId(items) == \A i \in 1..Len(items) : IsValidId(items[i])
EveryString(items) == \A i \in 1..Len(items) : IsString(items[i])

MissingIds == "Missing ids. You must provide at least one ID to distill."
InvalidIds == "Invalid ids. All IDs must be numeric strings"
MissingDistillation == "Missing distillation. You must provide an array of strings"
InvalidDistillation == "Invalid distillation. All distillation entries must be strings."

\* logger.debug(message), then throw new Error(error)
DebugThrow(message, error) == [threw |-> TRUE, error |-> error, debug |-> message]
\* return executePruneOperation(ctx, toolCtx, ids, "extraction", "Distill", distillation)
executePruneOperation(ids, reason, toolName, distillation) ==
    [threw |-> FALSE, callee |-> "executePruneOperation", ids |-> ids,
     reason |-> reason, toolName |-> toolName, distillation |-> distillation]

IsMissing(x) == ~Truthy(x) \/ ~IsArray(x) \/ Len(x.items) = 0

execute(a) ==
    IF IsMissing(a.ids)
    THEN DebugThrow("Distill tool called without ids", MissingIds)
    ELSE IF ~EveryValidId(a.ids.items)
    THEN DebugThrow("Distill tool called with invalid ids", InvalidIds)
    ELSE IF IsMissing(a.distillation)
    THEN DebugThrow("Distill tool called without distillation", MissingDistillation)
    ELSE IF ~EveryString(a.distillation.items)
    THEN DebugThrow("Distill tool called with non-string distillation", InvalidDistillation)
    ELSE executePruneOperation(a.ids.items, "extraction", "Distill", a.distillation.items)

\* the arguments a model can send: absent, not an array, or an array of up to MaxIds
\* entries, strings or not
ArraysOf(entries) == { Arr(items) : items \in UNION { [1..n -> entries] : n \in 0..MaxIds } }
IdEntries == {Str(<<"1">>), Str(<<" ">>), Number(2)}
DistillationEntries == {Str(<<"s">>), Str(<<>>), Number(0)}
IdsArguments == {Undefined, Str(<<"1">>)} \cup ArraysOf(IdEntries)
DistillationArguments == {Undefined, Str(<<"s">>)} \cup ArraysOf(DistillationEntries)

InitDistill ==
    /\ MatchOff
    /\ FormatOff
    /\ CollectOff
    /\ SelectOff
    /\ args \in [ids : IdsArguments, distillation : DistillationArguments]
    /\ exec = Undefined

Execute ==
    /\ args # Undefined
    /\ exec = Undefined
    /\ exec' = execute(args)
    /\ UNCHANGED args
    /\ UNCHANGED notDistillVars

NextDistill == Execute

SpecDistill == InitDistill /\ [][NextDistill]_vars

ReachedPrune == exec # Undefined /\ ~exec.threw

\* C13: whenever execute reaches executePruneOperation, the distillation array has
\* exactly as many entries as ids (one string per identifier, by position).
C13_OnePerId ==
    ReachedPrune => Len(exec.distillation) = Len(exec.ids)

(***************************************************************************)
(* collectToolIdsInRange(messages, startIndex, endIndex)                   *)
(***************************************************************************)
\* toolIds.includes(callID)
ArrayIncludes(arr, x) == \E k \in 1..Len(arr) : arr[k] = x

\* the inner loop: for (const part of parts)
RECURSIVE CollectParts(_, _)
CollectParts(parts, ids) ==
    IF parts = <<>> THEN ids
    ELSE LET part == Head(parts)
         IN CollectParts(Tail(parts),
                IF part.type = "tool" /\ part.callID # "" /\ ~ArrayIncludes(ids, part.callID)
                THEN Append(ids, part.callID)
                ELSE ids)

\* the outer loop: for (let i = startIndex; i <= endIndex; i++); messages[i] is the
\* element i + 1 of the sequence
RECURSIVE CollectFrom(_, _, _, _)
CollectFrom(msgs, i, endIndex, ids) ==
    IF i > endIndex THEN ids
    ELSE LET msg == msgs[i + 1]
             parts == IF IsArray(msg.parts) THEN msg.parts.items ELSE <<>>
         IN CollectFrom(msgs, i + 1, endIndex, CollectParts(parts, ids))

\* mutant: the loop stops before endIndex
collectToolIdsInRangeExclusiveEnd(msgs, startIndex, endIndex) ==
    CollectFrom(msgs, startIndex, endIndex - 1, <<>>)

collectToolIdsInRange(msgs, startIndex, endIndex) ==
    CollectFrom(msgs, startIndex, endIndex, <<>>)

\* message parts for the spans: the same call twice in one message and again in
\* others, a tool part with an empty callID, a message without a parts array
PartsRepeat ==
    Arr(<<ToolPart("call2", Undefined), TextPart(Str(<<"a">>)), ToolPart("call1", Undefined),
          ToolPart("call2", Undefined), ToolPart("", Undefined)>>)
PartsLate == Arr(<<ToolPart("call4", Undefined), ToolPart("call2", Undefined)>>)
SpanParts == {PartsAB, PartsB, PartsRepeat, PartsLate, Undefined}

SpanConversations ==
    UNION { { [i \in 1..n |-> [info |-> [id |-> MsgIds[i]], parts |-> ps[i]]] :
                ps \in [1..n -> SpanParts] } : n \in 1..MaxSpanMsgs }

\* spans of the list by 0-based indices, the empty spans with startIndex = endIndex + 1
\* included
Spans(msgs) ==
    { sp \in [startIndex : 0..(Len(msgs) - 1), endIndex : 0..(Len(msgs) - 1)] :
        sp.startIndex <= sp.endIndex + 1 }

InitCollect ==
    /\ messages \in SpanConversations
    /\ compressSummaries = <<>>
    /\ searchString = <<>>
    /\ fuzzyConfig = Undefined
    /\ ratio = <<>>
    /\ result = Undefined
    /\ logInfo = <<>>
    /\ mpc = "off"
    /\ FormatOff
    /\ DistillOff
    /\ SelectOff
    /\ range = Undefined
    /\ toolIds = Undefined

CollectToolIdsInRange(startIndex, endIndex) ==
    /\ range = Undefined
    /\ range' = [startIndex |-> startIndex, endIndex |-> endIndex]
    /\ toolIds' = collectToolIdsInRange(messages, startIndex, endIndex)
    /\ UNCHANGED notCollectVars

NextCollect == \E sp \in Spans(messages) : CollectToolIdsInRange(sp.startIndex, sp.endIndex)

SpecCollect == InitCollect /\ [][NextCollect]_vars

Collected == range # Undefined
SpanPositions == (range.startIndex + 1)..(range.endIndex + 1)
PartsOf(k) == IF IsArray(messages[k].parts) THEN messages[k].parts.items ELSE <<>>
\* where a call identifier occurs: message position and part position of a tool part
Occurrences(id) ==
    { pos \in UNION { {<<k, j>> : j \in 1..Len(PartsOf(k))} : k \in 1..Len(messages) } :
        /\ PartsOf(pos[1])[pos[2]].type = "tool"
        /\ PartsOf(pos[1])[pos[2]].callID = id }
OccurrencesInSpan(id) == { pos \in Occurrences(id) : pos[1] \in SpanPositions }
Before(p, q) == p[1] < q[1] \/ (p[1] = q[1] /\ p[2] < q[2])
FirstOccurrence(id) ==
    CHOOSE p \in OccurrencesInSpan(id) : \A q \in OccurrencesInSpan(id) \ {p} : Before(p, q)
\* the call identifiers the session uses; a tool part with an empty callID has none
CallIds == {"call1", "call2", "call3", "call4"}

\* C14: collectToolIdsInRange(messages, start, end) returns exactly the call
\* identifiers of the tool parts of messages start..end inclusive, each once, in the
\* order of their first occurrence; an identifier that only messages outside the span
\* carry is not returned.
C14_ToolIdsOfSpan ==
    Collected =>
        /\ { toolIds[k] : k \in 1..Len(toolIds) } =
              { id \in CallIds : OccurrencesInSpan(id) # {} }
        /\ \A a, b \in 1..Len(toolIds) : a # b => toolIds[a] # toolIds[b]
        /\ \A a, b \in 1..Len(toolIds) :
              a < b => Before(FirstOccurrence(toolIds[a]), FirstOccurrence(toolIds[b]))
        /\ \A id \in CallIds :
              (Occurrences(id) # {} /\ OccurrencesInSpan(id) = {}) =>
                  \A k \in 1..Len(toolIds) : toolIds[k] # id

\* the span of the second and third of three messages: call2 occurs in both and twice
\* in the second, call3 only in the first message, outside the span
C14_Witness ==
    /\ Collected
    /\ Len(messages) = 3
    /\ messages[1].parts = PartsB
    /\ messages[2].parts = PartsRepeat
    /\ messages[3].parts = PartsLate
    /\ range = [startIndex |-> 1, endIndex |-> 2]
    /\ toolIds = <<"call2", "call1", "call4">>

(***************************************************************************)
(* Further properties of the match engine.                                 *)
(***************************************************************************)
\* two messages, no compress summary, no exact candidate, default thresholds
TwoMessagesFuzzy ==
    /\ mpc = "done"
    /\ Len(messages) = 2
    /\ compressSummaries = <<>>
    /\ NoExactCandidate
    /\ fuzzyConfig = DEFAULT_FUZZY_CONFIG
ScoreOf(i) == partial_ratio(ratio, extractMessageContent(messages[i]))

\* C15 as stated: m1 is returned exactly when its score is at least 85 and exceeds the
\* score of m2 by at least 15; in every other case the call fails with not-found.
C15_AsStated ==
    TwoMessagesFuzzy =>
        IF ScoreOf(1) >= DefaultMinScore /\ ScoreOf(1) - ScoreOf(2) >= DefaultMinGap
        THEN result = Locator(1)
        ELSE result = Throw(NotFound)

\* the score of message i is accepted and that of message j is below the floor or at
\* least minGap lower
Wins(i, j) ==
    /\ ScoreOf(i) >= DefaultMinScore
    /\ ScoreOf(j) < DefaultMinScore \/ ScoreOf(i) - ScoreOf(j) >= DefaultMinGap

\* C15 (amended): with two messages m1 and m2, no compress summary, no exact match and
\* the default thresholds, m1 is returned exactly when its score is at least 85 and
\* the score of m2 is below 85 or at least 15 lower (m2 likewise); the call fails with
\* not-found exactly when both scores are below 85, and with the ambiguous-fuzzy-match
\* error exactly when both are at least 85 and less than 15 apart.
C15_TwoMessageFuzzy ==
    TwoMessagesFuzzy =>
        /\ result = Locator(1) <=> Wins(1, 2)
        /\ result = Locator(2) <=> Wins(2, 1)
        /\ result = Throw(NotFound) <=>
              (ScoreOf(1) < DefaultMinScore /\ ScoreOf(2) < DefaultMinScore)
        /\ result = Throw(AmbiguousFuzzy) <=>
              /\ ScoreOf(1) >= DefaultMinScore /\ ScoreOf(2) >= DefaultMinScore
              /\ ScoreOf(1) - ScoreOf(2) < DefaultMinGap
              /\ ScoreOf(2) - ScoreOf(1) < DefaultMinGap

\* both messages are accepted, m1 scores exactly 15 above m2, and m1 is returned
C15_Witness ==
    /\ TwoMessagesFuzzy
    /\ ScoreOf(1) = 100
    /\ ScoreOf(2) = 85
    /\ result = Locator(1)

(***************************************************************************)
(* Model selection: MODEL_TIERS, PROVIDER_PRIORITY, selectModel.           *)
(* Model identifiers are sequences of characters.                          *)
(***************************************************************************)
MODEL_TIERS ==
    [
     openai |->
       [tier1Models |-> <<
          \* gpt-5.1-codex
          <<"g", "p", "t", "-", "5", ".", "1", "-", "c", "o", "d", "e", "x">>,
          \* gpt-5.1
          <<"g", "p", "t", "-", "5", ".", "1">>,
          \* gpt-5
          <<"g", "p", "t", "-", "5">>,
          \* gpt-4o
          <<"g", "p", "t", "-", "4", "o">>,
          \* gpt-4-turbo
          <<"g", "p", "t", "-", "4", "-", "t", "u", "r", "b", "o">>>>,
        tier2Models |-> <<
          \* gpt-5.1-codex-mini
          <<"g", "p", "t", "-", "5", ".", "1", "-", "c", "o", "d", "e", "x", "-", "m", "i", "n", "i">>,
          \* gpt-5-mini
          <<"g", "p", "t", "-", "5", "-", "m", "i", "n", "i">>,
          \* gpt-5-nano
          <<"g", "p", "t", "-", "5", "-", "n", "a", "n", "o">>,
          \* gpt-4.1-mini
          <<"g", "p", "t", "-", "4", ".", "1", "-", "m", "i", "n", "i">>,
          \* gpt-4o-mini
          <<"g", "p", "t", "-", "4", "o", "-", "m", "i", "n", "i">>,
          \* gpt-3.5-turbo
          <<"g", "p", "t", "-", "3", ".", "5", "-", "t", "u", "r", "b", "o">>>>],
     anthropic |->
       [tier1Models |-> <<
          \* claude-sonnet-4.5
          <<"c", "l", "a", "u", "d", "e", "-", "s", "o", "n", "n", "e", "t", "-", "4", ".", "5">>,
          \* claude-sonnet-4
          <<"c", "l", "a", "u", "d", "e", "-", "s", "o", "n", "n", "e", "t", "-", "4">>,
          \* claude-opus-4.1
          <<"c", "l", "a", "u", "d", "e", "-", "o", "p", "u", "s", "-", "4", ".", "1">>,
          \* claude-3-5-sonnet-20241022
          <<"c", "l", "a", "u", "d", "e", "-", "3", "-", "5", "-", "s", "o", "n", "n", "e", "t", "-", "2", "0", "2", "4", "1", "0", "2", "2">>,
          \* claude-3-opus-20240229
          <<"c", "l", "a", "u", "d", "e", "-", "3", "-", "o", "p", "u", "s", "-", "2", "0", "2", "4", "0", "2", "2", "9">>>>,
        tier2Models |-> <<
          \* claude-haiku-4-5
          <<"c", "l", "a", "u", "d", "e", "-", "h", "a", "i", "k", "u", "-", "4", "-", "5">>,
          \* claude-3-5-haiku-20241022
          <<"c", "l", "a", "u", "d", "e", "-", "3", "-", "5", "-", "h", "a", "i", "k", "u", "-", "2", "0", "2", "4", "1", "0", "2", "2">>,
          \* claude-3-haiku-20240307
          <<"c", "l", "a", "u", "d", "e", "-", "3", "-", "h", "a", "i", "k", "u", "-", "2", "0", "2", "4", "0", "3", "0", "7">>>>],
     google |->
       [tier1Models |-> <<
          \* gemini-3-pro-preview
          <<"g", "e", "m", "i", "n", "i", "-", "3", "-", "p", "r", "o", "-", "p", "r", "e", "v", "i", "e", "w">>,
          \* gemini-2.5-pro
          <<"g", "e", "m", "i", "n", "i", "-", "2", ".", "5", "-", "p", "r", "o">>,
          \* gemini-2.0-pro
          <<"g", "e", "m", "i", "n", "i", "-", "2", ".", "0", "-", "p", "r", "o">>,
          \* gemini-1.5-pro
          <<"g", "e", "m", "i", "n", "i", "-", "1", ".", "5", "-", "p", "r", "o">>>>,
        tier2Models |-> <<
          \* gemini-2.5-flash
          <<"g", "e", "m", "i", "n", "i", "-", "2", ".", "5", "-", "f", "l", "a", "s", "h">>,
          \* gemini-2.5-flash-lite
          <<"g", "e", "m", "i", "n", "i", "-", "2", ".", "5", "-", "f", "l", "a", "s", "h", "-", "l", "i", "t", "e">>,
          \* gemini-2.0-flash-lite
          <<"g", "e", "m", "i", "n", "i", "-", "2", ".", "0", "-", "f", "l", "a", "s", "h", "-", "l", "i", "t", "e">>,
          \* gemini-1.5-flash
          <<"g", "e", "m", "i", "n", "i", "-", "1", ".", "5", "-", "f", "l", "a", "s", "h">>,
          \* gemini-1.5-flash-8b
          <<"g", "e", "m", "i", "n", "i", "-", "1", ".", "5", "-", "f", "l", "a", "s", "h", "-", "8", "b">>>>],
     deepseek |->
       [tier1Models |-> <<
          \* deepseek-r1
          <<"d", "e", "e", "p", "s", "e", "e", "k", "-", "r", "1">>,
          \* deepseek-v3.1
          <<"d", "e", "e", "p", "s", "e", "e", "k", "-", "v", "3", ".", "1">>,
          \* deepseek-reasoner
          <<"d", "e", "e", "p", "s", "e", "e", "k", "-", "r", "e", "a", "s", "o", "n", "e", "r">>,
          \* deepseek-coder
          <<"d", "e", "e", "p", "s", "e", "e", "k", "-", "c", "o", "d", "e", "r">>>>,
        tier2Models |-> <<
          \* deepseek-chat
          <<"d", "e", "e", "p", "s", "e", "e", "k", "-", "c", "h", "a", "t">>>>],
     xai |->
       [tier1Models |-> <<
          \* grok-4
          <<"g", "r", "o", "k", "-", "4">>,
          \* grok-code-fast-1
          <<"g", "r", "o", "k", "-", "c", "o", "d", "e", "-", "f", "a", "s", "t", "-", "1">>,
          \* grok-3
          <<"g", "r", "o", "k", "-", "3">>>>,
        tier2Models |-> <<
          \* grok-4-fast
          <<"g", "r", "o", "k", "-", "4", "-", "f", "a", "s", "t">>,
          \* grok-3-mini
          <<"g", "r", "o", "k", "-", "3", "-", "m", "i", "n", "i">>,
          \* grok-2-mini
          <<"g", "r", "o", "k", "-", "2", "-", "m", "i", "n", "i">>>>],
     qwen |->
       [tier1Models |-> <<
          \* qwen3-coder-480b
          <<"q", "w", "e", "n", "3", "-", "c", "o", "d", "e", "r", "-", "4", "8", "0", "b">>,
          \* qwen3-max
          <<"q", "w", "e", "n", "3", "-", "m", "a", "x">>,
          \* qwen2.5-coder-32b
          <<"q", "w", "e", "n", "2", ".", "5", "-", "c", "o", "d", "e", "r", "-", "3", "2", "b">>>>,
        tier2Models |-> <<
          \* qwen3-coder-flash
          <<"q", "w", "e", "n", "3", "-", "c", "o", "d", "e", "r", "-", "f", "l", "a", "s", "h">>,
          \* qwen-flash
          <<"q", "w", "e", "n", "-", "f", "l", "a", "s", "h">>,
          \* qwen-turbo
          <<"q", "w", "e", "n", "-", "t", "u", "r", "b", "o">>>>],
     zhipu |->
       [tier1Models |-> <<
          \* glm-4.6
          <<"g", "l", "m", "-", "4", ".", "6">>,
          \* glm-4.5
          <<"g", "l", "m", "-", "4", ".", "5">>,
          \* glm-4
          <<"g", "l", "m", "-", "4">>>>,
        tier2Models |-> <<
          \* glm-4.5-air
          <<"g", "l", "m", "-", "4", ".", "5", "-", "a", "i", "r">>,
          \* glm-4.5-flash
          <<"g", "l", "m", "-", "4", ".", "5", "-", "f", "l", "a", "s", "h">>,
          \* glm-4-flash
          <<"g", "l", "m", "-", "4", "-", "f", "l", "a", "s", "h">>>>],
     bigpickle |->
       [tier1Models |-> <<
          \* big-pickle
          <<"b", "i", "g", "-", "p", "i", "c", "k", "l", "e">>>>,
        tier2Models |-> <<
          \* big-pickle
          <<"b", "i", "g", "-", "p", "i", "c", "k", "l", "e">>>>]
    ]

PROVIDER_PRIORITY ==
    <<"openai", "anthropic", "google", "deepseek", "xai", "qwen", "zhipu", "bigpickle">>

UpperCaseLetters ==
    <<"A", "B", "C", "D", "E", "F", "G", "H", "I", "J", "K", "L", "M",
      "N", "O", "P", "Q", "R", "S", "T", "U", "V", "W", "X", "Y", "Z">>
LowerCaseLetters ==
    <<"a", "b", "c", "d", "e", "f", "g", "h", "i", "j", "k", "l", "m",
      "n", "o", "p", "q", "r", "s", "t", "u", "v", "w", "x", "y", "z">>
LowerCaseChar(c) ==
    IF \E i \in 1..Len(UpperCaseLetters) : UpperCaseLetters[i] = c
    THEN LowerCaseLetters[CHOOSE i \in 1..Len(UpperCaseLetters) : UpperCaseLetters[i] = c]
    ELSE c
\* String.prototype.toLowerCase on a model identifier
LowerCased(s) == [i \in 1..Len(s) |-> LowerCaseChar(s[i])]

\* MODEL_TIERS[providerID.toLowerCase()], undefined for a provider without an entry
TierConfig(providerID) ==
    IF ToLowerCase(providerID) \in DOMAIN MODEL_TIERS
    THEN MODEL_TIERS[ToLowerCase(providerID)]
    ELSE Undefined

Null == [t |-> "null"]

getTier2Model(providerID) ==
    LET config == TierConfig(providerID)
    IN IF config = Undefined \/ Len(config.tier2Models) = 0 THEN Null
       ELSE config.tier2Models[1]


isTier1Model(providerID, modelID) ==
    LET config == TierConfig(providerID)
    IN IF config = Undefined THEN FALSE
       ELSE \E k \in 1..Len(config.tier1Models) :
               Includes(LowerCased(modelID), LowerCased(config.tier1Models[k]))

ModelInfo(providerID, modelID) == [providerID |-> providerID, modelID |-> modelID]

\* the result selectModel resolves with, and its rejection
ModelSelectionResult(model, modelInfo, tier) ==
    [rejected |-> FALSE, model |-> model, modelInfo |-> modelInfo, tier |-> tier]
Rejected(by) == [rejected |-> TRUE, by |-> by]

\* what opencodeAI.getLanguageModel(providerID, modelID) resolves with
LanguageModel(providerID, modelID) ==
    [from |-> "getLanguageModel", providerID |-> providerID, modelID |-> modelID]
\* big-pickle
BigPickleId == <<"b", "i", "g", "-", "p", "i", "c", "k", "l", "e">>
\* createOpenAICompatible({ name: 'big-pickle', ... })('big-pickle')
getBigPickleModel == [from |-> "createOpenAICompatible", modelID |-> BigPickleId]

\* step 2 is entered when the current model is tier 1 and its provider has a tier 2 model
HasSameProviderFallback ==
    /\ isTier1Model(currentModel.providerID, currentModel.modelID)
    /\ getTier2Model(currentModel.providerID) # Null

\* mutant: the step 3 loop does not skip the provider of the current model
SkipsProviderKeepsCurrent(providerID) ==
    \/ providerID = "bigpickle"
    \/ providerID \notin authenticated.keys
    \/ getTier2Model(providerID) = Null

\* the continue conditions of the step 3 loop
SkipsProvider(providerID) ==
    \/ providerID = "bigpickle"
    \/ (currentModel # Undefined /\ providerID = currentModel.providerID)
    \/ providerID \notin authenticated.keys
    \/ getTier2Model(providerID) = Null

InLoop == spc = "step3" /\ providerIndex <= Len(PROVIDER_PRIORITY)

\* the getLanguageModel request the call is waiting for
Requested ==
    CASE spc = "step1" -> currentModel
      [] spc = "step2" ->
            ModelInfo(currentModel.providerID, getTier2Model(currentModel.providerID))
      [] spc = "step3" ->
            ModelInfo(PROVIDER_PRIORITY[providerIndex],
                      getTier2Model(PROVIDER_PRIORITY[providerIndex]))
Tier == CASE spc = "step1" -> "primary"
          [] spc = "step2" -> "tier2-same-provider"
          [] spc = "step3" -> "tier2-other-provider"
Awaiting ==
    \/ spc \in {"step1", "step2"}
    \/ InLoop /\ ~SkipsProvider(PROVIDER_PRIORITY[providerIndex])

\* the session models selectModel is called with
CurrentModels ==
    { Undefined,
      \* gpt-4o
      ModelInfo("openai", <<"g", "p", "t", "-", "4", "o">>),
      \* GPT-4o-2024, under a provider identifier that is not lower-case
      ModelInfo("OpenAI", <<"G", "P", "T", "-", "4", "o", "-", "2", "0", "2", "4">>),
      \* gpt-5.1-codex-mini, the first tier 2 model of openai
      ModelInfo("openai", <<"g", "p", "t", "-", "5", ".", "1", "-", "c", "o", "d", "e", "x", "-", "m", "i", "n", "i">>),
      \* claude-haiku-4-5, the first tier 2 model of anthropic
      ModelInfo("anthropic", <<"c", "l", "a", "u", "d", "e", "-", "h", "a", "i", "k", "u", "-", "4", "-", "5">>),
      \* big-pickle
      ModelInfo("bigpickle", <<"b", "i", "g", "-", "p", "i", "c", "k", "l", "e">>),
      \* mistral-large, of a provider without an entry in MODEL_TIERS
      ModelInfo("mistral", <<"m", "i", "s", "t", "r", "a", "l", "-", "l", "a", "r", "g", "e">>) }

\* the provider sets listProviders may answer
AuthenticatedSets == SUBSET {"openai", "anthropic", "zhipu"}

InitSelect ==
    /\ MatchOff
    /\ FormatOff
    /\ DistillOff
    /\ CollectOff
    /\ currentModel \in CurrentModels
    /\ authenticated = Undefined
    /\ attempts = <<>>
    /\ selection = Undefined
    /\ providerIndex = 0
    /\ spc = "start"

\* selectModel(currentModel): if (currentModel) step 1, else straight to step 3
SelectModel ==
    /\ spc = "start"
    /\ spc' = IF currentModel # Undefined THEN "step1" ELSE "list"
    /\ UNCHANGED <<currentModel, authenticated, attempts, selection, providerIndex>>
    /\ UNCHANGED notSelectVars

\* await opencodeAI.getLanguageModel(...) resolves: return at once
GetLanguageModelResolves ==
    /\ Awaiting
    /\ attempts' = Append(attempts, [request |-> Requested, ok |-> TRUE])
    /\ selection' = ModelSelectionResult(
                        LanguageModel(Requested.providerID, Requested.modelID),
                        Requested, Tier)
    /\ spc' = "done"
    /\ UNCHANGED <<currentModel, authenticated, providerIndex>>
    /\ UNCHANGED notSelectVars

\* await opencodeAI.getLanguageModel(...) rejects: the catch block, then the next step
GetLanguageModelRejects ==
    /\ Awaiting
    /\ attempts' = Append(attempts, [request |-> Requested, ok |-> FALSE])
    /\ spc' = CASE spc = "step1" -> IF HasSameProviderFallback THEN "step2" ELSE "list"
                [] spc = "step2" -> "list"
                [] spc = "step3" -> "step3"
    /\ providerIndex' = IF spc = "step3" THEN providerIndex + 1 ELSE providerIndex
    /\ UNCHANGED <<currentModel, authenticated, selection>>
    /\ UNCHANGED notSelectVars

\* await opencodeAI.listProviders() resolves
ListProvidersResolves(keys) ==
    /\ spc = "list"
    /\ authenticated' = [t |-> "object", keys |-> keys]
    /\ providerIndex' = 1
    /\ spc' = "step3"
    /\ UNCHANGED <<currentModel, attempts, selection>>
    /\ UNCHANGED notSelectVars

\* await opencodeAI.listProviders() rejects: the await is outside every try block
ListProvidersRejects ==
    /\ spc = "list"
    /\ selection' = Rejected("listProviders")
    /\ spc' = "done"
    /\ UNCHANGED <<currentModel, authenticated, attempts, providerIndex>>
    /\ UNCHANGED notSelectVars

\* a continue of the step 3 loop
SkipProvider ==
    /\ InLoop
    /\ SkipsProvider(PROVIDER_PRIORITY[providerIndex])
    /\ providerIndex' = providerIndex + 1
    /\ UNCHANGED <<currentModel, authenticated, attempts, selection, spc>>
    /\ UNCHANGED notSelectVars

\* step 4, after the loop
UseBigPickle ==
    /\ spc = "step3"
    /\ providerIndex > Len(PROVIDER_PRIORITY)
    /\ selection' = ModelSelectionResult(getBigPickleModel,
                                         ModelInfo("bigpickle", BigPickleId), "fallback")
    /\ spc' = "done"
    /\ UNCHANGED <<currentModel, authenticated, attempts, providerIndex>>
    /\ UNCHANGED notSelectVars

NextSelect ==
    \/ SelectModel
    \/ GetLanguageModelResolves
    \/ GetLanguageModelRejects
    \/ \E keys \in AuthenticatedSets : ListProvidersResolves(keys)
    \/ ListProvidersRejects
    \/ SkipProvider
    \/ UseBigPickle

SpecSelect == InitSelect /\ [][NextSelect]_vars

(***************************************************************************)
(* Properties of selectModel.                                              *)
(***************************************************************************)
Settled == spc = "done"
AllAttemptsFailed == \A k \in 1..Len(attempts) : ~attempts[k].ok

\* C16: selectModel never rejects, whatever model lookups and provider queries fail,
\* and when no attempted model could be obtained it resolves with the big-pickle
\* model and tier 'fallback'.
C16_NeverRejects ==
    Settled =>
        /\ ~selection.rejected
        /\ AllAttemptsFailed =>
              selection = ModelSelectionResult(getBigPickleModel,
                                               ModelInfo("bigpickle", BigPickleId),
                                               "fallback")

Candidate(modelInfo, tier) == [request |-> modelInfo, tier |-> tier]
\* the providers step 3 may ask: in PROVIDER_PRIORITY order, authenticated, neither
\* bigpickle nor the provider of the current model
IsOtherProvider(providerID) ==
    /\ providerID # "bigpickle"
    /\ currentModel = Undefined \/ providerID # currentModel.providerID
    /\ providerID \in authenticated.keys
OtherProviders == SelectSeq(PROVIDER_PRIORITY, IsOtherProvider)
\* the candidates in the order of the stages; those of step 3 are known once
\* listProviders has answered
CandidateOrder ==
    (IF currentModel = Undefined THEN <<>>
     ELSE <<Candidate(currentModel, "primary")>> \o
          (IF isTier1Model(currentModel.providerID, currentModel.modelID)
           THEN <<Candidate(ModelInfo(currentModel.providerID,
                                      getTier2Model(currentModel.providerID)),
                            "tier2-same-provider")>>
           ELSE <<>>))
    \o (IF authenticated = Undefined THEN <<>>
        ELSE [k \in 1..Len(OtherProviders) |->
                 Candidate(ModelInfo(OtherProviders[k], getTier2Model(OtherProviders[k])),
                           "tier2-other-provider")])

C19_NoRepeatedRequest ==
    \A i, j \in 1..Len(attempts) : i # j => attempts[i].request # attempts[j].request

ExactCandidates == findExactMatches(messages, searchString, compressSummaries)
DistinctMessageIds(c) ==
    \A a, b \in 1..Len(c) : a # b => c[a].messageId # c[b].messageId
\* every summary that contains the search string is anchored at message i, and no
\* other message contains it
HitsShareAnchor(i) ==
    /\ ContainingSummaries # {}
    /\ \A k \in ContainingSummaries :
          compressSummaries[k].anchorMessageId = messages[i].info.id
    /\ ContainingMsgs \subseteq {i}

\* C18: candidates are deduplicated by message identifier.  When one or several
\* summaries anchored at one message contain the search string, and possibly that
\* anchor message itself but nothing else, there is a single exact candidate and the
\* call returns the anchor message instead of failing as ambiguous; neither candidate
\* list names a message identifier twice.
C18_OneCandidatePerMessage ==
    mpc = "done" =>
        /\ \A i \in 1..Len(messages) :
              HitsShareAnchor(i) =>
                  /\ Len(ExactCandidates) = 1
                  /\ result = Locator(i)
        /\ DistinctMessageIds(ExactCandidates)
        /\ NoExactCandidate => DistinctMessageIds(FuzzyCandidates)

\* two summaries anchored at the second message and that message itself contain the
\* search string, the first message does not, and the second message was returned
C18_Witness ==
    /\ mpc = "done"
    /\ Len(messages) = 2
    /\ ContainingSummaries = {1, 2}
    /\ ContainingMsgs = {2}
    /\ HitsShareAnchor(2)
    /\ result = Locator(2)

\* the locator names a position of the list and the identifier of the message there
ConsistentLocator(messageId, messageIndex) ==
    /\ 0 <= messageIndex
    /\ messageIndex < Len(messages)
    /\ messages[messageIndex + 1].info.id = messageId
ConsistentCandidates(c) ==
    \A a \in 1..Len(c) : ConsistentLocator(c[a].messageId, c[a].messageIndex)

\* C20: every locator findStringInMessages returns, from an exact or a fuzzy hit in a
\* message or in a summary, is in range and consistent: 0 <= messageIndex <
\* messages.length and messages[messageIndex].info.id is the returned messageId; a
\* summary whose anchor message is not in the list produces no candidate and no locator.
C20_LocatorInRange ==
    mpc = "done" =>
        /\ ~result.threw =>
              /\ ConsistentLocator(result.messageId, result.messageIndex)
              /\ result.messageId \in MessageIdSet
        /\ ConsistentCandidates(ExactCandidates)
        /\ NoExactCandidate => ConsistentCandidates(FuzzyCandidates)

\* the first summary contains the search string and scores 100 but is anchored outside
\* the list; the second summary, anchored at the only message, is the fuzzy hit
\* returned, the message itself scoring below the floor
C20_Witness ==
    /\ mpc = "done"
    /\ Len(messages) = 1
    /\ Len(compressSummaries) = 2
    /\ compressSummaries[1].anchorMessageId \notin MessageIdSet
    /\ Includes(compressSummaries[1].summary, searchString)
    /\ NoExactCandidate
    /\ partial_ratio(ratio, compressSummaries[1].summary) = 100
    /\ compressSummaries[2].anchorMessageId = messages[1].info.id
    /\ ScoreOf(1) < fuzzyConfig.minScore
    /\ result = Locator(1)

====
